---- MODULE Spec2Model ----
(***************************************************************************)
(* Cosmological distance model of the BATIP supernova notebooks:           *)
(*   flat_universe.ipynb      flat JAX model      H, luminosity_distance,  *)
(*                                                distance_modulus        *)
(*   non-flat JAX notebook    general model with curvature Ok              *)
(*   sbi_flat_universe.ipynb  batched torch model and simulator            *)
(*                                                                         *)
(* The notebooks compute in float32.  Here a float is a pair <<m, e>>      *)
(* standing for m * 10^e with a four digit significand                     *)
(* (MantLo <= |m| < 10*MantLo), zero is <<0, 0>>, and the IEEE specials    *)
(* are the unnormalised pairs PInf, NInf and NaN.  Every arithmetic        *)
(* operator rounds its exact result to the significand and follows the     *)
(* IEEE rules for the specials (x/0 = inf, 0/0 = NaN, inf*0 = NaN, ...).   *)
(***************************************************************************)
EXTENDS Integers, Sequences, FiniteSets, TLC

(***************************************************************************)
(* Floating point arithmetic                                               *)
(***************************************************************************)
MantLo == 1000
EMax == 38
EMin == -45

Zero == <<0, 0>>
PInf == <<1, 0>>
NInf == <<-1, 0>>
NaN  == <<2, 0>>

AbsI(n) == IF n < 0 THEN -n ELSE n
SgnI(n) == IF n < 0 THEN -1 ELSE IF n = 0 THEN 0 ELSE 1

IsNaN(a) == a = NaN
IsInf(a) == a = PInf \/ a = NInf
IsFinite(a) == ~IsNaN(a) /\ ~IsInf(a)
Sgn(a) == SgnI(a[1])

RECURSIVE Pow10(_)
Pow10(k) == IF k = 0 THEN 1 ELSE 10 * Pow10(k - 1)

\* round an exact integer significand m (times 10^e) to a float
RECURSIVE Norm(_, _)
Norm(m, e) ==
  LET a == AbsI(m)
      s == SgnI(m)
  IN  IF m = 0 THEN Zero
      ELSE IF a >= 100 * MantLo THEN Norm(s * (a \div 10), e + 1)
      ELSE IF a >= 10 * MantLo THEN Norm(s * ((a + 5) \div 10), e + 1)
      ELSE IF a < MantLo THEN Norm(m * 10, e - 1)
      ELSE IF e + 3 > EMax THEN (IF s > 0 THEN PInf ELSE NInf)
      ELSE IF e + 3 < EMin THEN Zero
      ELSE <<m, e>>

Neg(a) == IF IsNaN(a) THEN NaN ELSE IF IsInf(a) THEN <<-a[1], 0>> ELSE <<-a[1], a[2]>>
Abs(a) == IF Sgn(a) < 0 THEN Neg(a) ELSE a

Add(a, b) ==
  IF IsNaN(a) \/ IsNaN(b) THEN NaN
  ELSE IF IsInf(a) THEN (IF IsInf(b) /\ b # a THEN NaN ELSE a)
  ELSE IF IsInf(b) THEN b
  ELSE IF a[1] = 0 THEN b
  ELSE IF b[1] = 0 THEN a
  ELSE LET hi == IF a[2] >= b[2] THEN a ELSE b
           lo == IF a[2] >= b[2] THEN b ELSE a
           d  == hi[2] - lo[2]
       IN  IF d > 5 THEN hi ELSE Norm(hi[1] * Pow10(d) + lo[1], lo[2])

Sub(a, b) == Add(a, Neg(b))

Mul(a, b) ==
  IF IsNaN(a) \/ IsNaN(b) THEN NaN
  ELSE IF IsInf(a) \/ IsInf(b)
       THEN (IF Sgn(a) * Sgn(b) = 0 THEN NaN
             ELSE IF Sgn(a) * Sgn(b) > 0 THEN PInf ELSE NInf)
  ELSE Norm(a[1] * b[1], a[2] + b[2])

Div(a, b) ==
  IF IsNaN(a) \/ IsNaN(b) THEN NaN
  ELSE IF IsInf(a)
       THEN (IF IsInf(b) THEN NaN
             ELSE IF Sgn(a) * Sgn(b) < 0 THEN NInf ELSE PInf)
  ELSE IF IsInf(b) THEN Zero
  ELSE IF b[1] = 0
       THEN (IF a[1] = 0 THEN NaN ELSE IF Sgn(a) > 0 THEN PInf ELSE NInf)
  ELSE Norm(Sgn(a) * Sgn(b) * ((AbsI(a[1]) * Pow10(5)) \div AbsI(b[1])),
            a[2] - b[2] - 5)

\* a < b ; every comparison with NaN is false
Lt(a, b) ==
  IF IsNaN(a) \/ IsNaN(b) \/ a = b THEN FALSE
  ELSE IF a = NInf \/ b = PInf THEN TRUE
  ELSE IF a = PInf \/ b = NInf THEN FALSE
  ELSE IF Sgn(a) # Sgn(b) THEN Sgn(a) < Sgn(b)
  ELSE IF Sgn(a) > 0 THEN a[2] < b[2] \/ (a[2] = b[2] /\ a[1] < b[1])
  ELSE a[2] > b[2] \/ (a[2] = b[2] /\ a[1] < b[1])

Le(a, b) == ~IsNaN(a) /\ ~IsNaN(b) /\ (a = b \/ Lt(a, b))

\* jnp.maximum(a, b) and torch.clamp(a, min=b): NaN propagates
Maximum(a, b) ==
  IF IsNaN(a) \/ IsNaN(b) THEN NaN ELSE IF Lt(a, b) THEN b ELSE a

RECURSIVE ISqrtIter(_, _)
ISqrtIter(n, x) ==
  LET y == (x + n \div x) \div 2
  IN  IF y >= x THEN x ELSE ISqrtIter(n, y)

ISqrt(n) == IF n = 0 THEN 0 ELSE ISqrtIter(n, 32000)

Sqrt(a) ==
  IF IsNaN(a) \/ Sgn(a) < 0 THEN NaN
  ELSE IF a = PInf THEN PInf
  ELSE IF a[1] = 0 THEN Zero
  ELSE IF a[2] % 2 = 0 THEN Norm(ISqrt(a[1] * Pow10(4)), (a[2] - 4) \div 2)
  ELSE Norm(ISqrt(a[1] * Pow10(5)), (a[2] - 5) \div 2)

\* the float nearest to the decimal m * 10^e
F(m, e) == Norm(m, e)

\* jnp.sinh: odd power series, summed until the sum stops changing;
\* beyond 100 the value exceeds the float range
RECURSIVE SinhIter(_, _, _, _)
SinhIter(x2, term, sum, k) ==
  LET t == Div(Mul(term, x2), F((2 * k) * (2 * k + 1), 0))
      s == Add(sum, t)
  IN  IF s = sum THEN sum ELSE SinhIter(x2, t, s, k + 1)

Sinh(a) ==
  IF IsNaN(a) \/ IsInf(a) \/ a[1] = 0 THEN a
  ELSE IF Lt(F(100, 0), Abs(a)) THEN (IF Sgn(a) > 0 THEN PInf ELSE NInf)
  ELSE SinhIter(Mul(a, a), a, a, 1)

\* jnp.sin: the argument is reduced modulo 2*pi = 6.283, then to the first
\* quadrant, and the alternating power series is summed there
RECURSIVE PowMod(_, _, _)
PowMod(b, k, n) == IF k = 0 THEN 1 % n ELSE (b * PowMod(b, k - 1, n)) % n

RECURSIVE SinIter(_, _, _, _)
SinIter(x2, term, sum, k) ==
  LET t == Neg(Div(Mul(term, x2), F((2 * k) * (2 * k + 1), 0)))
      s == Add(sum, t)
  IN  IF s = sum THEN sum ELSE SinIter(x2, t, s, k + 1)

SinQuadrant(r) == IF r[1] = 0 THEN Zero ELSE SinIter(Mul(r, r), r, r, 1)

\* u is the reduced argument in thousandths, 0 <= u < 6283
SinReduced(u) ==
  IF u <= 1571 THEN SinQuadrant(F(u, -3))
  ELSE IF u <= 3142 THEN SinQuadrant(F(3142 - u, -3))
  ELSE IF u <= 4712 THEN Neg(SinQuadrant(F(u - 3142, -3)))
  ELSE Neg(SinQuadrant(F(6283 - u, -3)))

SinPos(a) ==
  IF a[2] < -3 THEN SinQuadrant(a)
  ELSE SinReduced((a[1] * PowMod(10, a[2] + 3, 6283)) % 6283)

Sin(a) ==
  IF IsNaN(a) \/ IsInf(a) THEN NaN
  ELSE IF a[1] = 0 THEN Zero
  ELSE IF Sgn(a) < 0 THEN Neg(SinPos(Neg(a)))
  ELSE SinPos(a)

\* jnp.log10 / torch.log10: exponent plus the binary logarithm expansion of
\* the significand (y in [1, 10) held as 4000*y, twelve fractional bits)
RECURSIVE LogBits(_, _, _)
LogBits(y, k, acc) ==
  IF k = 0 THEN acc
  ELSE LET y2 == (y * y) \div 4000
       IN  IF y2 >= 40000 THEN LogBits(y2 \div 10, k - 1, 2 * acc + 1)
           ELSE LogBits(y2, k - 1, 2 * acc)

Log10(a) ==
  IF IsNaN(a) \/ Sgn(a) < 0 THEN NaN
  ELSE IF a = PInf THEN PInf
  ELSE IF a[1] = 0 THEN NInf
  ELSE Div(F((a[2] + 3) * 4096 + LogBits(4 * a[1], 12, 0), 0), F(4096, 0))

(***************************************************************************)
(* Constants and array helpers of the notebooks                            *)
(***************************************************************************)
\* integration grid size (N = 1000 in the notebooks, scaled down here)
N == 5

c == F(299792458, -3)
EPS == F(1, -10)
One == F(1, 0)

\* jnp.sum / torch.cumsum: running left-to-right sum of s[1..k]
RECURSIVE SumTo(_, _)
SumTo(s, k) == IF k = 0 THEN Zero ELSE Add(SumTo(s, k - 1), s[k])

\* mutant of Sum: the last element is left out of the sum
Sum_without_last(s) == SumTo(s, Len(s) - 1)

\* mutant of Sum: the first and the last element count half (trapezoid rule)
Sum_trapezoid(s) ==
  Sub(SumTo(s, Len(s)), Div(Add(s[1], s[Len(s)]), F(2, 0)))

Sum(s) == SumTo(s, Len(s))
\* mutant of CumSum: the terms are returned as they are, not accumulated
CumSum_not_accumulated(s) == s

CumSum(s) == [k \in 1..Len(s) |-> SumTo(s, k)]

\* mutant of jnp_linspace: the end point is left out (endpoint=False)
jnp_linspace_open(z) ==
  [k \in 1..N |-> Mul(z, Div(F(k - 1, 0), F(N, 0)))]

\* jnp.linspace(0, z, N): 0*(1-t) + z*t with t = i/(N-1), last point set to z
jnp_linspace(z) ==
  [k \in 1..N |-> IF k = N THEN z ELSE Mul(z, Div(F(k - 1, 0), F(N - 1, 0)))]

\* mutant of torch_linspace: the end point is left out
torch_linspace_open(zmax) ==
  [k \in 1..N |-> Mul(Div(zmax, F(N, 0)), F(k - 1, 0))]

\* torch.linspace(0, zmax, N): start + i*step in the lower half,
\* end - (N-1-i)*step in the upper half
torch_linspace(zmax) ==
  LET step == Div(zmax, F(N - 1, 0))
  IN  [k \in 1..N |-> IF k - 1 < N \div 2
                      THEN Mul(step, F(k - 1, 0))
                      ELSE Sub(zmax, Mul(step, F(N - k, 0)))]

\* z.max()
RECURSIVE MaxTo(_, _)
MaxTo(s, k) == IF k = 1 THEN s[1] ELSE Maximum(MaxTo(s, k - 1), s[k])

Max(s) == MaxTo(s, Len(s))

\* torch.searchsorted(arr, v): 0-based index of the first element >= v
searchsorted(arr, v) == Cardinality({k \in 1..Len(arr) : Lt(arr[k], v)})

\* mutant of clamp_idx: the lower bound is taken one too high
clamp_idx_from_above(idx, lo, hi) ==
  IF idx < lo + 1 THEN lo + 1 ELSE IF idx > hi THEN hi ELSE idx

\* torch.clamp(idx, lo, hi) on an integer index
clamp_idx(idx, lo, hi) == IF idx < lo THEN lo ELSE IF idx > hi THEN hi ELSE idx

(***************************************************************************)
(* flat_universe.ipynb: flat JAX model                                     *)
(***************************************************************************)
\* mutant of radicand_flat: the density sum goes under the root unclamped
radicand_flat_unclamped(z, Om) ==
  LET OL == Sub(One, Om)
      x  == Add(One, z)
  IN  Add(Mul(Om, Mul(Mul(x, x), x)), OL)

\* mutant of radicand_flat: the matter and dark-energy densities are swapped
radicand_flat_swapped(z, Om) ==
  LET OL == Sub(One, Om)
      x  == Add(One, z)
  IN  Maximum(Add(Mul(OL, Mul(Mul(x, x), x)), Om), EPS)

\* mutant of radicand_flat: OL is a fixed number instead of 1 - Om
radicand_flat_fixed_OL(z, Om) ==
  LET OL == F(7, -1)
      x  == Add(One, z)
  IN  Maximum(Add(Mul(Om, Mul(Mul(x, x), x)), OL), EPS)

\* the value placed under the square root
radicand_flat(z, Om) ==
  LET OL == Sub(One, Om)
      x  == Add(One, z)
  IN  Maximum(Add(Mul(Om, Mul(Mul(x, x), x)), OL), EPS)

H_flat(z, H0, Om) == Mul(H0, Sqrt(radicand_flat(z, Om)))

\* mutant of clamp_distance: the distance is returned without the floor
clamp_distance_missing(pre) == pre

\* jnp.maximum((1 + z) * dM, 1e-10): the positive floor of the distance
clamp_distance(pre) == Maximum(pre, EPS)

\* the locals of luminosity_distance(z, Om, H0) and its return value ret
luminosity_distance_flat(z, Om, H0) ==
  LET z_array == jnp_linspace(z)
      dz == Sub(z_array[2], z_array[1])
      Hgrid == [k \in 1..N |-> H_flat(z_array[k], H0, Om)]
      integrand_values == [k \in 1..N |-> Div(c, Hgrid[k])]
      chi == Mul(Sum(integrand_values), dz)
      pre == Mul(Add(One, z), chi)
  IN  [z_array |-> z_array, dz |-> dz,
       rad |-> [k \in 1..N |-> radicand_flat(z_array[k], Om)],
       H |-> Hgrid,
       integrand_values |-> integrand_values,
       chi |-> chi, pre |-> pre, ret |-> clamp_distance(pre)]

\* mutant of modulus: the sign of the logarithm term is flipped
modulus_sign_flipped(dL) ==
  Add(Mul(F(-5, 0), Log10(Maximum(dL, EPS))), F(25, 0))

\* 5 * log10(max(dL, 1e-10)) + 25
modulus(dL) == Add(Mul(F(5, 0), Log10(Maximum(dL, EPS))), F(25, 0))

distance_modulus_flat(z, Om, H0) ==
  LET f == luminosity_distance_flat(z, Om, H0)
  IN  [z |-> z, ld |-> f, dL |-> f.ret, mu |-> modulus(f.ret)]

\* vmap(distance_modulus, in_axes=(0, None, None))
distance_modulus_vec_flat(z, Om, H0) ==
  [i \in 1..Len(z) |-> distance_modulus_flat(z[i], Om, H0)]

(***************************************************************************)
(* non-flat JAX notebook: general model with curvature                     *)
(***************************************************************************)
\* mutant of radicand: the curvature term is subtracted instead of added
radicand_curvature_subtracted(z, Om, Ok) ==
  LET OL == Sub(Sub(One, Om), Ok)
      x  == Add(One, z)
  IN  Maximum(Add(Sub(Mul(Om, Mul(Mul(x, x), x)), Mul(Ok, Mul(x, x))), OL), EPS)

radicand(z, Om, Ok) ==
  LET OL == Sub(Sub(One, Om), Ok)
      x  == Add(One, z)
  IN  Maximum(Add(Add(Mul(Om, Mul(Mul(x, x), x)), Mul(Ok, Mul(x, x))), OL), EPS)

H(z, H0, Om, Ok) == Mul(H0, Sqrt(radicand(z, Om, Ok)))

\* mutant of select_case: no flat branch, only the sign of Ok is tested
select_case_by_sign(Ok, flat_case, open_case, closed_case) ==
  IF Lt(Zero, Ok) THEN open_case ELSE closed_case

\* mutant of select_case: the tolerance test is <= instead of <
select_case_inclusive(Ok, flat_case, open_case, closed_case) ==
  IF Le(Abs(Ok), EPS) THEN flat_case
  ELSE IF Lt(Zero, Ok) THEN open_case
  ELSE closed_case

\* mutant of select_case: flat only when Ok is exactly 0
select_case_exact_zero(Ok, flat_case, open_case, closed_case) ==
  IF Ok = Zero THEN flat_case
  ELSE IF Lt(Zero, Ok) THEN open_case
  ELSE closed_case

\* jnp.where(|Ok| < 1e-10, flat_case, jnp.where(Ok > 0, open_case, closed_case))
select_case(Ok, flat_case, open_case, closed_case) ==
  IF Lt(Abs(Ok), EPS) THEN flat_case
  ELSE IF Lt(Zero, Ok) THEN open_case
  ELSE closed_case

\* the factor in front of sinh / sin
curvature_factor(H0, sqrt_abs_Ok) == Div(c, Mul(H0, sqrt_abs_Ok))

luminosity_distance(z, Om, Ok, H0) ==
  LET z_array == jnp_linspace(z)
      dz == Sub(z_array[2], z_array[1])
      Hgrid == [k \in 1..N |-> H(z_array[k], H0, Om, Ok)]
      integrand_values == [k \in 1..N |-> Div(c, Hgrid[k])]
      chi == Mul(Sum(integrand_values), dz)
      sqrt_abs_Ok == Div(Mul(Sqrt(Abs(Ok)), H0), c)
      factor == curvature_factor(H0, sqrt_abs_Ok)
      flat_case == chi
      open_case == Mul(factor, Sinh(Mul(sqrt_abs_Ok, chi)))
      closed_case == Mul(factor, Sin(Mul(sqrt_abs_Ok, chi)))
      dM == select_case(Ok, flat_case, open_case, closed_case)
      pre == Mul(Add(One, z), dM)
  IN  [z_array |-> z_array, dz |-> dz,
       rad |-> [k \in 1..N |-> radicand(z_array[k], Om, Ok)],
       H |-> Hgrid,
       integrand_values |-> integrand_values,
       chi |-> chi, sqrt_abs_Ok |-> sqrt_abs_Ok, factor |-> factor,
       flat_case |-> flat_case, open_case |-> open_case,
       closed_case |-> closed_case, dM |-> dM,
       pre |-> pre, ret |-> clamp_distance(pre)]

distance_modulus(z, Om, Ok, H0) ==
  LET f == luminosity_distance(z, Om, Ok, H0)
  IN  [z |-> z, ld |-> f, dL |-> f.ret, mu |-> modulus(f.ret)]

\* vmap(distance_modulus, in_axes=(0, None, None, None))
distance_modulus_vec(z, Om, Ok, H0) ==
  [i \in 1..Len(z) |-> distance_modulus(z[i], Om, Ok, H0)]

(***************************************************************************)
(* sbi_flat_universe.ipynb: batched torch model and simulator              *)
(* theta is a sequence of rows <<H0, Om>>; arrays indexed from 0 in the    *)
(* notebook are sequences here, At(arr, i) being arr[i] of the notebook    *)
(***************************************************************************)
At(arr, i) == arr[i + 1]

radicand_sbi(z, row) ==
  LET Om == row[2]
      OL == Sub(One, Om)
      x  == Add(One, z)
  IN  Maximum(Add(Mul(Om, Mul(Mul(x, x), x)), OL), EPS)

\* mutant of H_sbi: the parameters of the first row are used for every row
H_sbi_first_row(z, theta) ==
  [r \in 1..Len(theta) |->
     [k \in 1..Len(z) |-> Mul(theta[1][1], Sqrt(radicand_sbi(z[k], theta[1])))]]

\* H(z, theta)[r][k] for the grid z
H_sbi(z, theta) ==
  [r \in 1..Len(theta) |->
     [k \in 1..Len(z) |-> Mul(theta[r][1], Sqrt(radicand_sbi(z[k], theta[r])))]]

\* the locals of one pass of the interpolation loop, for target z[i]
interpolate(z_array, chi, zi) ==
  LET idx0 == searchsorted(z_array, zi)
      idx  == clamp_idx(idx0, 1, N - 1)
      z0   == At(z_array, idx - 1)
      z1   == At(z_array, idx)
      w    == Div(Sub(zi, z0), Sub(z1, z0))
  IN  [idx |-> idx, z0 |-> z0, z1 |-> z1, den |-> Sub(z1, z0), w |-> w,
       chi0 |-> [r \in 1..Len(chi) |-> At(chi[r], idx - 1)],
       chi1 |-> [r \in 1..Len(chi) |-> At(chi[r], idx)],
       col |-> [r \in 1..Len(chi) |->
                  Add(Mul(At(chi[r], idx - 1), Sub(One, w)),
                      Mul(At(chi[r], idx), w))]]

luminosity_distance_sbi(z, theta) ==
  LET z_array == torch_linspace(Max(z))
      dz == Sub(At(z_array, 1), At(z_array, 0))
      Hgrid == H_sbi(z_array, theta)
      integrand_values ==
        [r \in 1..Len(theta) |-> [k \in 1..N |-> Div(c, Hgrid[r][k])]]
      chi ==
        [r \in 1..Len(theta) |->
           CumSum([k \in 1..N |-> Mul(integrand_values[r][k], dz)])]
      loop == [i \in 1..Len(z) |-> interpolate(z_array, chi, z[i])]
      chi_interp ==
        [r \in 1..Len(theta) |-> [i \in 1..Len(z) |-> loop[i].col[r]]]
  IN  [z_array |-> z_array, dz |-> dz,
       rad |-> [r \in 1..Len(theta) |->
                  [k \in 1..N |-> radicand_sbi(z_array[k], theta[r])]],
       H |-> Hgrid, integrand_values |-> integrand_values, chi |-> chi,
       loop |-> loop, chi_interp |-> chi_interp,
       ret |-> [r \in 1..Len(theta) |->
                  [i \in 1..Len(z) |->
                     Maximum(Mul(Add(One, z[i]), chi_interp[r][i]), EPS)]]]

\* mu = 5 * log10(clamp(dL, min=1e-10)) + 25 for the batch of distances f.ret
clean_moduli(f) ==
  [ld |-> f, dL |-> f.ret,
   mu |-> [r \in 1..Len(f.ret) |->
             [i \in 1..Len(f.ret[r]) |-> modulus(f.ret[r][i])]]]

\* simulator(theta) up to mu = 5 * log10(clamp(dL)) + 25, for the redshifts z
\* of the data file
simulator_mu(theta, z) == clean_moduli(luminosity_distance_sbi(z, theta))

\* mu += torch.randn_like(mu) * sigma[None, :] with the draw noise
add_noise(mu, sigma, noise) ==
  [r \in 1..Len(mu) |->
     [i \in 1..Len(mu[r]) |-> Add(mu[r][i], Mul(noise[r][i], sigma[i]))]]

(***************************************************************************)
(* State: the data set, one parameter draw, what each notebook's model has  *)
(* computed for them, and the log of the direct evaluations of the         *)
(* functions (calls)                                                       *)
(***************************************************************************)
VARIABLES z, mu_obs, mu_err, H0, Om, Ok, flat, nonflat, sbi, calls

vars == <<z, mu_obs, mu_err, H0, Om, Ok, flat, nonflat, sbi, calls>>

MaxObs == 2

ZSet == {Zero, F(1, -1), F(3, 0)}
H0Set == {F(60, 0), F(80, 0)}
OmSet == {F(-5, -1), F(1, -1), F(3, -1)}
OkSet == {Zero, F(-5, -11), EPS, Neg(EPS), F(1, -1), F(-44, -2)}
NoiseSet == {F(-1, 0), One}

Init ==
  /\ z \in UNION {[1..n -> ZSet] : n \in 1..MaxObs}
  /\ mu_obs = [i \in 1..Len(z) |-> F(40, 0)]
  /\ mu_err = [i \in 1..Len(z) |-> F(2, -1)]
  /\ H0 \in H0Set
  /\ Om \in OmSet
  /\ Ok \in OkSet
  /\ flat = <<>>
  /\ nonflat = <<>>
  /\ sbi = <<>>
  /\ calls = <<>>

\* flat_universe.ipynb model(z, mu_obs, mu_err): the expected moduli
model_flat ==
  /\ flat = <<>>
  /\ flat' = distance_modulus_vec_flat(z, Om, H0)
  /\ UNCHANGED <<z, mu_obs, mu_err, H0, Om, Ok, nonflat, sbi, calls>>

\* non-flat model(z, mu_obs, mu_err): the expected moduli
model ==
  /\ nonflat = <<>>
  /\ nonflat' = distance_modulus_vec(z, Om, Ok, H0)
  /\ UNCHANGED <<z, mu_obs, mu_err, H0, Om, Ok, flat, sbi, calls>>

\* what simulator returns: the moduli s.mu with the noise draw added
noisy_moduli(s, sigma, noise) ==
  [ld |-> s.ld, dL |-> s.dL, mu_clean |-> s.mu,
   mu |-> add_noise(s.mu, sigma, noise)]

\* mutant of simulator: the noise is first multiplied into sigma in place
\* (sigma *= noise; mu += sigma), which overwrites the uncertainties
simulator_scaling_sigma_in_place ==
  /\ sbi = <<>>
  /\ LET s == simulator_mu(<<<<H0, Om>>>>, z)
     IN  \E noise \in [1..1 -> [1..Len(z) -> NoiseSet]] :
           /\ sbi' = <<noisy_moduli(s, mu_err, noise)>>
           /\ mu_err' = [i \in 1..Len(z) |-> Mul(noise[1][i], mu_err[i])]
  /\ UNCHANGED <<z, mu_obs, H0, Om, Ok, flat, nonflat, calls>>

\* x = simulator(theta) for the one-row batch theta = [[H0, Om]]
simulator ==
  /\ sbi = <<>>
  /\ LET s == simulator_mu(<<<<H0, Om>>>>, z)
     IN  \E noise \in [1..1 -> [1..Len(z) -> NoiseSet]] :
           sbi' = <<noisy_moduli(s, mu_err, noise)>>
  /\ UNCHANGED <<z, mu_obs, mu_err, H0, Om, Ok, flat, nonflat, calls>>

\* The three notebooks are separate programs.  A behaviour of Spec runs one
\* of them on the data set and the parameter draw.
Fresh == flat = <<>> /\ nonflat = <<>> /\ sbi = <<>>

Next == (Fresh /\ model_flat) \/ (Fresh /\ model) \/ (Fresh /\ simulator)

Spec == Init /\ [][Next]_vars

\* The two JAX notebooks run on the same data and draw, in either order.
NextJax == model_flat \/ model

SpecJax == Init /\ [][NextJax]_vars

\* The flat JAX notebook and the simulator run on the same data and draw
\* (both are flat models: Ok = 0), in either order.
InitFlat == Init /\ Ok = Zero

NextFlatSbi == model_flat \/ simulator

SpecFlatSbi == InitFlat /\ [][NextFlatSbi]_vars

(***************************************************************************)
(* Direct evaluations.  The functions are also called on their own, on     *)
(* any arguments; calls is the log of such evaluations, each entry holding *)
(* the function, its arguments and what it returned.                       *)
(***************************************************************************)
MaxCalls == 2
MaxRows == 2

\* no element occurs twice in the sequence s
Distinct(s) == \A i, j \in 1..Len(s) : s[i] = s[j] => i = j

\* target redshift arrays and parameter batches of the direct batched calls
ZBatch == {F(1, -1), F(3, 0)}
ThetaRows == {<<F(60, 0), F(3, -1)>>, <<F(80, 0), F(1, -1)>>}
Targets == {zs \in UNION {[1..n -> ZBatch] : n \in 1..MaxObs} : Distinct(zs)}
Batches == {th \in UNION {[1..n -> ThetaRows] : n \in 1..MaxRows} : Distinct(th)}

\* no notebook has run; only direct evaluations follow
InitCalls ==
  /\ Init
  /\ z = <<F(1, -1)>>
  /\ H0 = F(60, 0)
  /\ Om = F(3, -1)
  /\ Ok = Zero

\* dL = luminosity_distance(zs, theta) and the noise-free moduli of simulator,
\* evaluated on the targets zs and the batch theta
call_simulator_mu ==
  /\ Len(calls) < MaxCalls
  /\ \E zs \in Targets, theta \in Batches :
       calls' = Append(calls, [fn |-> "simulator_mu", z |-> zs, theta |-> theta,
                               value |-> simulator_mu(theta, zs)])
  /\ UNCHANGED <<z, mu_obs, mu_err, H0, Om, Ok, flat, nonflat, sbi>>

NextBatch == call_simulator_mu

SpecBatch == InitCalls /\ [][NextBatch]_vars

\* arguments of the direct evaluations of the JAX functions, in the order of
\* each function's parameters, and of the batched H
HFlatArgs == {Zero, F(5, -1)} \X {F(70, 0)} \X {Zero, F(3, -1), One}
FlatArgs == {F(5, -1), One} \X {Zero, F(3, -1), One} \X {F(70, 0), F(700, 0)}
HArgs ==
  {Zero, F(2, 0)} \X {F(70, 0)} \X {F(126, -4), F(95, -2)} \X {F(-3, -1), F(5, -2)}
GenArgs ==
  ({F(2, 0)} \X {F(95, -2), One} \X {Zero, F(5, -2), F(-5, -2)}
     \X {F(70, 0), F(700, 0)})
    \cup {<<F(2, 0), Zero, Zero, F(70, 0)>>}
HSbiArgs == {<<Zero>>, <<Zero, F(5, -1)>>} \X Batches

\* what an evaluation adds to the log
Entry(fn, args, value) == [fn |-> fn, args |-> args, value |-> value]

\* flat_universe.ipynb: H(z, H0, Om)
call_H_flat ==
  /\ Len(calls) < MaxCalls
  /\ \E a \in HFlatArgs :
       calls' = Append(calls, Entry("H_flat", a, H_flat(a[1], a[2], a[3])))
  /\ UNCHANGED <<z, mu_obs, mu_err, H0, Om, Ok, flat, nonflat, sbi>>

\* mutant of call_distance_modulus_flat: the evaluation reads a global that
\* every earlier evaluation has changed (here: H0 is divided by the number of
\* evaluations made so far)
call_distance_modulus_flat_stateful ==
  /\ Len(calls) < MaxCalls
  /\ \E a \in FlatArgs :
       calls' = Append(calls,
                  Entry("distance_modulus_flat", a,
                        distance_modulus_flat(a[1], a[2],
                                              Div(a[3], F(1 + Len(calls), 0)))))
  /\ UNCHANGED <<z, mu_obs, mu_err, H0, Om, Ok, flat, nonflat, sbi>>

\* flat_universe.ipynb: distance_modulus(z, Om, H0), which evaluates
\* luminosity_distance(z, Om, H0)
call_distance_modulus_flat ==
  /\ Len(calls) < MaxCalls
  /\ \E a \in FlatArgs :
       calls' = Append(calls,
                  Entry("distance_modulus_flat", a,
                        distance_modulus_flat(a[1], a[2], a[3])))
  /\ UNCHANGED <<z, mu_obs, mu_err, H0, Om, Ok, flat, nonflat, sbi>>

\* non-flat notebook: H(z, H0, Om, Ok)
call_H ==
  /\ Len(calls) < MaxCalls
  /\ \E a \in HArgs :
       calls' = Append(calls, Entry("H", a, H(a[1], a[2], a[3], a[4])))
  /\ UNCHANGED <<z, mu_obs, mu_err, H0, Om, Ok, flat, nonflat, sbi>>

\* non-flat notebook: distance_modulus(z, Om, Ok, H0), which evaluates
\* luminosity_distance(z, Om, Ok, H0)
call_distance_modulus ==
  /\ Len(calls) < MaxCalls
  /\ \E a \in GenArgs :
       calls' = Append(calls,
                  Entry("distance_modulus", a,
                        distance_modulus(a[1], a[2], a[3], a[4])))
  /\ UNCHANGED <<z, mu_obs, mu_err, H0, Om, Ok, flat, nonflat, sbi>>

\* sbi_flat_universe.ipynb: H(z, theta)
call_H_sbi ==
  /\ Len(calls) < MaxCalls
  /\ \E a \in HSbiArgs :
       calls' = Append(calls, Entry("H_sbi", a, H_sbi(a[1], a[2])))
  /\ UNCHANGED <<z, mu_obs, mu_err, H0, Om, Ok, flat, nonflat, sbi>>

NextEval ==
  \/ call_H_flat
  \/ call_distance_modulus_flat
  \/ call_H
  \/ call_distance_modulus
  \/ call_H_sbi

SpecEval == InitCalls /\ [][NextEval]_vars

(***************************************************************************)
(* The harnesses.  Both JAX models sample their parameters from uniform    *)
(* priors before they evaluate the distance model, and the simulator is    *)
(* run on draws of the BoxUniform prior.                                   *)
(***************************************************************************)
\* mutant of Uniform: a distribution whose support is wider than [low, high]
Unbounded(low, high) ==
  {Sub(low, Sub(high, low)), Div(Add(low, high), F(2, 0)),
   Add(high, Sub(high, low))}

\* dist.Uniform(low, high) / one coordinate of utils.BoxUniform(low, high):
\* the draws considered are the two ends and the middle of the support
Uniform(low, high) == {low, Div(Add(low, high), F(2, 0)), high}

prior_H0 == Uniform(F(60, 0), F(80, 0))
prior_Om == Uniform(F(1, -1), F(9, -1))
prior_Ok == Uniform(F(-1, -1), F(1, -1))

\* the data set and one draw of the priors
InitPrior ==
  /\ z \in UNION {[1..n -> ZSet] : n \in 1..MaxObs}
  /\ mu_obs = [i \in 1..Len(z) |-> F(40, 0)]
  /\ mu_err = [i \in 1..Len(z) |-> F(2, -1)]
  /\ H0 \in prior_H0
  /\ Om \in prior_Om
  /\ Ok \in prior_Ok
  /\ flat = <<>>
  /\ nonflat = <<>>
  /\ sbi = <<>>
  /\ calls = <<>>

\* one notebook run on a draw of its prior
SpecPrior == InitPrior /\ [][Next]_vars

(***************************************************************************)
(* Properties                                                              *)
(***************************************************************************)
FlatDone == flat # <<>>
NonflatDone == nonflat # <<>>
SbiDone == sbi # <<>>
Obs == 1..Len(z)
Grid == 1..N
Curved == Le(EPS, Abs(Ok))
PhysicalOm == Lt(Zero, Om) /\ Lt(Om, One)

\* C1 (as claimed): in the general model with |Ok| >= 1e-10 the factor in
\* front of sinh/sin is c/(H0*sqrt(|Ok|)), the coefficient of chi inside is
\* sqrt(|Ok|)*H0/c, and r(z) is that factor times sinh/sin of coefficient*chi.
C1_CurvatureFactorAsSpecified ==
  (NonflatDone /\ Curved) =>
    \A i \in Obs :
      LET f == nonflat[i].ld
          factor == Div(c, Mul(H0, Sqrt(Abs(Ok))))
          coef == Div(Mul(Sqrt(Abs(Ok)), H0), c)
      IN  /\ f.sqrt_abs_Ok = coef
          /\ f.factor = factor
          /\ f.dM = IF Lt(Zero, Ok) THEN Mul(factor, Sinh(Mul(coef, f.chi)))
                    ELSE Mul(factor, Sin(Mul(coef, f.chi)))

\* |a - b| <= a/100
Within1Percent(a, b) == Le(Abs(Sub(a, b)), Div(a, F(100, 0)))

\* C2 (as claimed): for every target z > 0 of the array the batched chi
\* (shared grid, cumulative sum, interpolation) is within 1% of the chi of
\* the direct single-redshift path for the same H0 and Om.
C2_BatchedAgreesWithDirect ==
  (FlatDone /\ SbiDone) =>
    \A i \in Obs :
      Lt(Zero, z[i]) =>
        Within1Percent(flat[i].ld.chi, sbi[1].ld.chi_interp[1][i])

\* what C3 says of one grid sample: radicand rad, Hubble parameter h,
\* integrand v
HubblePositive(rad, h, v) ==
  /\ Le(EPS, rad)
  /\ Le(Mul(H0, F(1, -5)), h)
  /\ Lt(Zero, h)
  /\ IsFinite(v)
  /\ Lt(Zero, v)

\* C3: at every grid point of every model (flat JAX, general JAX, batched
\* torch), also for unphysical draws, the value under the square root is
\* >= 1e-10, H >= H0*1e-5 > 0 and the integrand c/H is finite and positive.
C3_HubblePositive ==
  /\ FlatDone =>
       \A i \in Obs : \A k \in Grid :
         LET f == flat[i].ld
         IN  HubblePositive(f.rad[k], f.H[k], f.integrand_values[k])
  /\ NonflatDone =>
       \A i \in Obs : \A k \in Grid :
         LET f == nonflat[i].ld
         IN  HubblePositive(f.rad[k], f.H[k], f.integrand_values[k])
  /\ SbiDone =>
       \A k \in Grid :
         LET f == sbi[1].ld
         IN  HubblePositive(f.rad[1][k], f.H[1][k], f.integrand_values[1][k])

\* C3 witness: an unphysical draw whose density sum is not positive at a grid
\* point, so that the clamp is what is under the square root
C3_Witness ==
  /\ FlatDone
  /\ \E i \in Obs : \E k \in Grid :
       /\ flat[i].ld.rad[k] = EPS
       /\ flat[i].ld.H[k] = Mul(H0, F(1, -5))

\* C4 (as claimed): in both JAX models, for Om in (0,1) and any Ok, the
\* distance modulus is non-decreasing in z.
C4_ModulusMonotoneAnyOk ==
  PhysicalOm =>
    \A i, j \in Obs :
      Le(z[i], z[j]) =>
        /\ FlatDone => Le(flat[i].mu, flat[j].mu)
        /\ NonflatDone => Le(nonflat[i].mu, nonflat[j].mu)

\* C4 (amended): the distance modulus is non-decreasing in z in the flat
\* model for Om in (0,1), and in the general model for Om in (0,1) and
\* Ok >= 0.
C4_ModulusMonotone ==
  PhysicalOm =>
    \A i, j \in Obs :
      Le(z[i], z[j]) =>
        /\ FlatDone => Le(flat[i].mu, flat[j].mu)
        /\ (NonflatDone /\ Le(Zero, Ok)) => Le(nonflat[i].mu, nonflat[j].mu)

\* C4 witness: two different redshifts in an open universe, both models run,
\* the modulus strictly larger at the larger redshift
C4_Witness ==
  /\ FlatDone /\ NonflatDone /\ PhysicalOm /\ Lt(EPS, Ok)
  /\ \E i, j \in Obs :
       /\ Lt(z[i], z[j])
       /\ Lt(flat[i].mu, flat[j].mu)
       /\ Lt(nonflat[i].mu, nonflat[j].mu)

\* what C5 says of one evaluation at z = 0 (f the locals of
\* luminosity_distance, mu the modulus)
DegenerateAtZero(f, mu) ==
  /\ f.dz = Zero
  /\ f.chi = Zero
  /\ f.pre = Zero
  /\ f.ret = EPS
  /\ mu = F(-25, 0)

\* C5: at z = 0 both JAX models have dz = 0, chi = 0, a pre-clamp distance
\* of 0, return exactly 1e-10 and a distance modulus of exactly -25.
C5_ZeroRedshift ==
  \A i \in Obs :
    z[i] = Zero =>
      /\ FlatDone => DegenerateAtZero(flat[i].ld, flat[i].mu)
      /\ NonflatDone => DegenerateAtZero(nonflat[i].ld, nonflat[i].mu)

\* C5 witness: both models evaluated at z = 0 with Ok = 0 exactly
C5_Witness ==
  /\ FlatDone /\ NonflatDone /\ Ok = Zero
  /\ \E i \in Obs : z[i] = Zero /\ nonflat[i].mu = F(-25, 0)

\* C6: with Ok = 0 the general model gives what the flat model gives: same
\* radicands, same chi, the flat branch selected, same distance and modulus.
C6_FlatSpecialisation ==
  (FlatDone /\ NonflatDone /\ Ok = Zero) =>
    \A i \in Obs :
      /\ nonflat[i].ld.rad = flat[i].ld.rad
      /\ nonflat[i].ld.chi = flat[i].ld.chi
      /\ nonflat[i].ld.dM = nonflat[i].ld.chi
      /\ nonflat[i].dL = flat[i].dL
      /\ nonflat[i].mu = flat[i].mu

\* C6 witness: both models run with Ok = 0 at a positive redshift, with a
\* distance above the floor
C6_Witness ==
  /\ FlatDone /\ NonflatDone /\ Ok = Zero
  /\ \E i \in Obs : Lt(Zero, z[i]) /\ Lt(EPS, nonflat[i].dL)

\* C7: the geometry is selected by Ok alone: chi for |Ok| < 1e-10, the sinh
\* value for Ok >= 1e-10, the sin value for Ok <= -1e-10, and exactly one of
\* the three cases applies.
C7_GeometryByOk ==
  NonflatDone =>
    LET isFlat == Lt(Abs(Ok), EPS)
        isOpen == Le(EPS, Ok)
        isClosed == Le(Ok, Neg(EPS))
    IN  /\ Cardinality({b \in {1, 2, 3} :
                          \/ b = 1 /\ isFlat
                          \/ b = 2 /\ isOpen
                          \/ b = 3 /\ isClosed}) = 1
        /\ \A i \in Obs :
             LET f == nonflat[i].ld
             IN  /\ isFlat => f.dM = f.chi
                 /\ isOpen => f.dM = f.open_case
                 /\ isClosed => f.dM = f.closed_case

\* C7 witness: Ok exactly at the tolerance, where the open value is selected
\* and differs from chi
C7_Witness ==
  /\ NonflatDone /\ Ok = EPS
  /\ \E i \in Obs :
       /\ nonflat[i].ld.dM = nonflat[i].ld.open_case
       /\ nonflat[i].ld.dM # nonflat[i].ld.chi

\* what C8 says of one returned distance dL with pre-clamp value pre and
\* modulus mu
FloorHolds(pre, dL, mu) ==
  /\ Le(EPS, dL)
  /\ Le(pre, EPS) => dL = EPS
  /\ Le(F(-25, 0), mu)

\* C8 (as claimed): in every model and for every input the returned distance
\* is >= 1e-10, is exactly 1e-10 when (1+z)*r(z) <= 1e-10, and the modulus
\* is never below -25.
C8_DistanceFloor ==
  /\ FlatDone =>
       \A i \in Obs : FloorHolds(flat[i].ld.pre, flat[i].dL, flat[i].mu)
  /\ NonflatDone =>
       \A i \in Obs :
         FloorHolds(nonflat[i].ld.pre, nonflat[i].dL, nonflat[i].mu)
  /\ SbiDone =>
       \A i \in Obs :
         FloorHolds(Mul(Add(One, z[i]), sbi[1].ld.chi_interp[1][i]),
                    sbi[1].dL[1][i], sbi[1].mu_clean[1][i])

\* C9 (as claimed): in the batched model the interpolation denominator is
\* never zero, the weight is finite and every returned distance is a finite
\* value >= 1e-10, also when the largest redshift of the array is 0.
C9_BatchedFinite ==
  SbiDone =>
    \A i \in Obs :
      LET l == sbi[1].ld.loop[i]
      IN  /\ l.den # Zero
          /\ IsFinite(l.w)
          /\ IsFinite(sbi[1].dL[1][i])
          /\ Le(EPS, sbi[1].dL[1][i])

\* C10 (as claimed): for |Ok| < 1e-10 nothing is divided by zero, no
\* intermediate is inf or NaN, and the result is max((1+z)*chi, 1e-10).
C10_NoDivisionByZero ==
  (NonflatDone /\ Lt(Abs(Ok), EPS)) =>
    \A i \in Obs :
      LET f == nonflat[i].ld
      IN  /\ Mul(H0, f.sqrt_abs_Ok) # Zero
          /\ IsFinite(f.factor)
          /\ IsFinite(f.open_case)
          /\ IsFinite(f.closed_case)
          /\ f.ret = Maximum(Mul(Add(One, z[i]), f.chi), EPS)

\* C10 (amended): for |Ok| < 1e-10 the flat value is the one selected and
\* the result is max((1+z)*chi, 1e-10), not NaN; the open and closed values
\* are still computed (with Ok = 0 by dividing by zero) and then discarded.
C10_FlatWithinTolerance ==
  (NonflatDone /\ Lt(Abs(Ok), EPS)) =>
    \A i \in Obs :
      LET f == nonflat[i].ld
      IN  /\ f.dM = f.chi
          /\ f.ret = Maximum(Mul(Add(One, z[i]), f.chi), EPS)
          /\ ~IsNaN(f.ret)

\* C10 witness: Ok = 0 exactly at a positive redshift: the factor is inf, the
\* open and closed values are NaN, the result is finite and above the floor
C10_Witness ==
  /\ NonflatDone /\ Ok = Zero
  /\ \E i \in Obs :
       LET f == nonflat[i].ld
       IN  /\ f.factor = PInf
           /\ IsNaN(f.open_case)
           /\ IsNaN(f.closed_case)
           /\ IsFinite(f.ret)
           /\ Lt(EPS, f.ret)

CallIdx == 1..Len(calls)

\* C11 (as claimed): in the batched path the comoving distance, the distance
\* and the modulus computed for a target z_i with parameters (H0, Om) depend
\* only on (z_i, H0, Om): two calls whose target arrays both hold z_i, whatever
\* their other elements, give the same values for it.
C11_TargetIndependent ==
  \A a, b \in CallIdx :
    \A i \in 1..Len(calls[a].z), j \in 1..Len(calls[b].z) :
      \A r \in 1..Len(calls[a].theta), q \in 1..Len(calls[b].theta) :
        (calls[a].z[i] = calls[b].z[j] /\ calls[a].theta[r] = calls[b].theta[q])
          => /\ calls[a].value.ld.chi_interp[r][i]
                  = calls[b].value.ld.chi_interp[q][j]
             /\ calls[a].value.dL[r][i] = calls[b].value.dL[q][j]
             /\ calls[a].value.mu[r][i] = calls[b].value.mu[q][j]

\* C12: the output of a batched call has one row per parameter row and one
\* column per target, in input order, and row r depends only on parameter
\* row r and the targets: calls on the same set of targets (in any order)
\* give the same distance and noise-free modulus for a target under equal
\* parameter rows, whatever the other rows of theta are.
C12_RowIndependent ==
  \A a, b \in CallIdx :
    /\ Len(calls[a].value.dL) = Len(calls[a].theta)
    /\ Len(calls[a].value.mu) = Len(calls[a].theta)
    /\ \A r \in 1..Len(calls[a].theta) :
         /\ Len(calls[a].value.dL[r]) = Len(calls[a].z)
         /\ Len(calls[a].value.mu[r]) = Len(calls[a].z)
    /\ \A i \in 1..Len(calls[a].z), j \in 1..Len(calls[b].z) :
         \A r \in 1..Len(calls[a].theta), q \in 1..Len(calls[b].theta) :
           (/\ Max(calls[a].z) = Max(calls[b].z)
            /\ calls[a].z[i] = calls[b].z[j]
            /\ calls[a].theta[r] = calls[b].theta[q])
             => /\ calls[a].value.dL[r][i] = calls[b].value.dL[q][j]
                /\ calls[a].value.mu[r][i] = calls[b].value.mu[q][j]

\* C12 witness: the same targets evaluated under a one-row batch and under a
\* two-row batch that holds that row second, the two rows of the larger batch
\* giving different distances
C12_Witness ==
  /\ Len(calls) = 2
  /\ calls[1].z = calls[2].z
  /\ Len(calls[1].theta) = 1 /\ Len(calls[2].theta) = 2
  /\ calls[2].theta[2] = calls[1].theta[1]
  /\ calls[2].value.dL[1] # calls[2].value.dL[2]
  /\ calls[2].value.dL[2] = calls[1].value.dL[1]

\* what C13 says of a grid g for the target zt, apart from its monotonicity
GridSpans(g, zt) ==
  /\ Len(g) = N
  /\ g[1] = Zero
  /\ g[N] = zt

StrictlyIncreasing(g) == \A k \in 1..(Len(g) - 1) : Lt(g[k], g[k + 1])
NonDecreasing(g) == \A k \in 1..(Len(g) - 1) : Le(g[k], g[k + 1])

\* C13 (as claimed): for every distance evaluation with a target z >= 0 (the
\* largest target in the batched model) the integration grid has N points, is
\* strictly increasing, starts at exactly 0 and ends at exactly the target.
C13_GridStrictlyIncreasing ==
  /\ FlatDone =>
       \A i \in Obs :
         GridSpans(flat[i].ld.z_array, z[i])
           /\ StrictlyIncreasing(flat[i].ld.z_array)
  /\ NonflatDone =>
       \A i \in Obs :
         GridSpans(nonflat[i].ld.z_array, z[i])
           /\ StrictlyIncreasing(nonflat[i].ld.z_array)
  /\ SbiDone =>
       GridSpans(sbi[1].ld.z_array, Max(z))
         /\ StrictlyIncreasing(sbi[1].ld.z_array)

\* the grid g for the target zt is strictly increasing when zt > 0 and is N
\* zeros when zt = 0
GridOrdered(g, zt) ==
  /\ GridSpans(g, zt)
  /\ NonDecreasing(g)
  /\ Lt(Zero, zt) => StrictlyIncreasing(g)
  /\ zt = Zero => \A k \in 1..N : g[k] = Zero

\* C13 (amended): the grid has N points, starts at exactly 0, ends at exactly
\* the target and is non-decreasing; it is strictly increasing when the target
\* is > 0, and all its points are 0 when the target is 0.
C13_GridOrdered ==
  /\ FlatDone => \A i \in Obs : GridOrdered(flat[i].ld.z_array, z[i])
  /\ NonflatDone => \A i \in Obs : GridOrdered(nonflat[i].ld.z_array, z[i])
  /\ SbiDone => GridOrdered(sbi[1].ld.z_array, Max(z))

\* C13 witness: one run of the flat model holding a target 0, whose grid is
\* constant, and a target > 0, whose grid increases strictly up to it
C13_Witness ==
  /\ FlatDone
  /\ \E i, j \in Obs :
       /\ z[i] = Zero /\ flat[i].ld.z_array[2] = Zero
       /\ Lt(Zero, z[j])
       /\ Lt(flat[j].ld.z_array[N - 1], flat[j].ld.z_array[N])
       /\ flat[j].ld.z_array[N] = z[j]

\* the logged evaluations of the function fn
CallsOf(fn) == {a \in CallIdx : calls[a].fn = fn}

\* the evaluations of the flat distance_modulus at z = 1.0, Om = 0.3, H0 = 70
UnitRedshiftCalls ==
  {a \in CallsOf("distance_modulus_flat") :
     calls[a].args = <<One, F(3, -1), F(70, 0)>>}

UnitInterval(x) == Le(Zero, x) /\ Le(x, One)

\* C15: in the flat model, for the same H0 > 0 and the same z > 0, a larger
\* Om in [0, 1] gives integrand samples, chi, dL and a distance modulus that
\* are no larger; at z = 0.5 and H0 = 70 the modulus for Om = 1.0 is strictly
\* below the one for Om = 0.3.
C15_ModulusDecreasesWithOm ==
  \A a, b \in CallsOf("distance_modulus_flat") :
    LET za == calls[a].args[1]
        Oma == calls[a].args[2]
        Omb == calls[b].args[2]
        va == calls[a].value
        vb == calls[b].value
    IN  (/\ za = calls[b].args[1]
         /\ calls[a].args[3] = calls[b].args[3]
         /\ Lt(Zero, za)
         /\ UnitInterval(Oma) /\ UnitInterval(Omb)
         /\ Le(Oma, Omb))
          => /\ \A k \in Grid :
                  Le(vb.ld.integrand_values[k], va.ld.integrand_values[k])
             /\ Le(vb.ld.chi, va.ld.chi)
             /\ Le(vb.dL, va.dL)
             /\ Le(vb.mu, va.mu)
             /\ (za = F(5, -1) /\ Oma = F(3, -1) /\ Omb = One)
                  => Lt(vb.mu, va.mu)

\* C15 witness: z = 0.5 evaluated with Om = 0.3 and then with Om = 1.0, the
\* second modulus strictly smaller
C15_Witness ==
  /\ Len(calls) = 2
  /\ calls[1].fn = "distance_modulus_flat"
  /\ calls[2].fn = "distance_modulus_flat"
  /\ calls[1].args = <<F(5, -1), F(3, -1), F(70, 0)>>
  /\ calls[2].args = <<F(5, -1), One, F(70, 0)>>
  /\ Lt(calls[2].value.mu, calls[1].value.mu)

\* the evaluations of the general distance_modulus(z, Om, Ok, H0) with Om > 0,
\* Ok >= 0 and OL = 1 - Om - Ok equal to 0
NoDarkEnergyCalls ==
  {a \in CallsOf("distance_modulus") :
     /\ Lt(Zero, calls[a].args[2])
     /\ Le(Zero, calls[a].args[3])
     /\ Sub(Sub(One, calls[a].args[2]), calls[a].args[3]) = Zero}

\* C16: in the general model with OL = 0, Om > 0 and Ok >= 0 the value under
\* the square root is >= Om at every grid point, so the clamp is not active;
\* the selected branch divides by nothing that is zero (the flat value for
\* |Ok| < 1e-10, else the open value with a finite non-zero factor); and the
\* distance and the distance modulus are finite.
C16_FiniteWithoutDarkEnergy ==
  \A a \in NoDarkEnergyCalls :
    LET arg_Om == calls[a].args[2]
        arg_Ok == calls[a].args[3]
        arg_H0 == calls[a].args[4]
        f == calls[a].value.ld
    IN  /\ \A k \in Grid : Le(arg_Om, f.rad[k]) /\ Lt(EPS, f.rad[k])
        /\ \A k \in Grid : IsFinite(f.integrand_values[k])
        /\ IF Lt(Abs(arg_Ok), EPS)
           THEN f.dM = f.chi
           ELSE /\ Mul(arg_H0, f.sqrt_abs_Ok) # Zero
                /\ IsFinite(f.factor)
                /\ f.dM = f.open_case
        /\ IsFinite(f.dM)
        /\ IsFinite(calls[a].value.dL)
        /\ IsFinite(calls[a].value.mu)

\* C16 witness: Om = 0.95, Ok = 0.05 evaluated at z = 2.0, the open value
\* selected and the result above the floor
C16_Witness ==
  \E a \in NoDarkEnergyCalls :
    /\ calls[a].args = <<F(2, 0), F(95, -2), F(5, -2), F(70, 0)>>
    /\ calls[a].value.ld.dM = calls[a].value.ld.open_case
    /\ Lt(EPS, calls[a].value.dL)
    /\ IsFinite(calls[a].value.mu)

\* the spacing of the floats next to 1, relative to 1
RoundingUnit == F(1, -3)

\* a = b up to the relative error tol: |a - b| <= |b| * tol (a = b for tol = 0)
Within(a, b, tol) == Le(Abs(Sub(a, b)), Mul(Abs(b), tol))

\* What C17 says of the logged evaluations: H at z = 0 is H0, and at the
\* first grid point (z = 0) of every distance evaluation the density sum is 1
\* and H is H0: exactly in the flat models, within the relative error tol in
\* the general model.
DensitiesSumToOne(tol) ==
  /\ \A a \in CallsOf("H_flat") :
       calls[a].args[1] = Zero => calls[a].value = calls[a].args[2]
  /\ \A a \in CallsOf("H_sbi") :
       \A r \in 1..Len(calls[a].args[2]) : \A k \in 1..Len(calls[a].args[1]) :
         calls[a].args[1][k] = Zero
           => calls[a].value[r][k] = calls[a].args[2][r][1]
  /\ \A a \in CallsOf("distance_modulus_flat") :
       /\ calls[a].value.ld.z_array[1] = Zero
       /\ calls[a].value.ld.rad[1] = One
       /\ calls[a].value.ld.H[1] = calls[a].args[3]
  /\ \A a \in CallsOf("H") :
       calls[a].args[1] = Zero => Within(calls[a].value, calls[a].args[2], tol)
  /\ \A a \in CallsOf("distance_modulus") :
       /\ calls[a].value.ld.z_array[1] = Zero
       /\ Within(calls[a].value.ld.rad[1], One, tol)
       /\ Within(calls[a].value.ld.H[1], calls[a].args[4], tol)

Between(lo, x, hi) == Le(lo, x) /\ Le(x, hi)

\* C19: whenever a harness has evaluated the distance model, the parameters
\* it handed over lie in the prior box: H0 in [60, 80] and Om in [0.1, 0.9]
\* for the two JAX models and for the simulator, and Ok in [-0.1, 0.1] for
\* the non-flat model, the only one that has an Ok.
C19_DrawsInPriorBox ==
  (FlatDone \/ NonflatDone \/ SbiDone) =>
    /\ Between(F(60, 0), H0, F(80, 0))
    /\ Between(F(1, -1), Om, F(9, -1))
    /\ NonflatDone => Between(F(-1, -1), Ok, F(1, -1))

\* C19 witness: the non-flat model evaluated at a corner of the box
C19_Witness ==
  /\ NonflatDone
  /\ H0 = F(80, 0) /\ Om = F(9, -1) /\ Ok = F(-1, -1)
  /\ \E i \in Obs : Lt(EPS, nonflat[i].dL)

\* C20: no evaluation of a likelihood model or of the simulator modifies its
\* inputs: in every step the redshifts z, the observed moduli mu_obs, the
\* uncertainties mu_err (sigma) and the parameters (theta = [[H0, Om]], Ok)
\* are left as they were; the in-place noise addition of the simulator
\* changes the returned mu only: the distances still give the noise-free
\* moduli, and mu is those moduli plus a noise draw times the sigma.
C20_InputsUnchanged ==
  [][/\ z' = z
     /\ mu_obs' = mu_obs
     /\ mu_err' = mu_err
     /\ H0' = H0 /\ Om' = Om /\ Ok' = Ok
     /\ (sbi = <<>> /\ sbi' # <<>>) =>
          /\ \A i \in 1..Len(z') :
               sbi'[1].mu_clean[1][i] = modulus(sbi'[1].dL[1][i])
          /\ \E noise \in [1..1 -> [1..Len(z') -> NoiseSet]] :
               sbi'[1].mu = add_noise(sbi'[1].mu_clean, mu_err', noise)
    ]_vars

\* C20 witness: the simulator has run and added noise to a modulus above the
\* floor, with the uncertainties and the observed moduli as loaded
C20_Witness ==
  /\ SbiDone
  /\ \E i \in Obs :
       /\ Lt(F(-25, 0), sbi[1].mu_clean[1][i])
       /\ sbi[1].mu[1][i] # sbi[1].mu_clean[1][i]
  /\ mu_err = [i \in Obs |-> F(2, -1)]
  /\ mu_obs = [i \in Obs |-> F(40, 0)]

\* what C21 says of the locals f of one single-redshift evaluation at zt whose
\* Hubble values are hub: the step is zt/(N-1) (up to the rounding of the
\* grid), the integrand is c/H at each of the N grid points from 0 to zt, and
\* chi is the step times the sum of all N samples
RectangleRule(f, zt, hub) ==
  /\ Len(f.z_array) = N /\ Len(f.integrand_values) = N
  /\ f.z_array[1] = Zero /\ f.z_array[N] = zt
  /\ f.dz = Sub(f.z_array[2], f.z_array[1])
  /\ Within(f.dz, Div(zt, F(N - 1, 0)), RoundingUnit)
  /\ \A k \in Grid : f.integrand_values[k] = Div(c, hub[k])
  /\ f.chi = Mul(SumTo(f.integrand_values, N), f.dz)

\* C21: in the single-redshift path of both JAX models dz = z/(N-1) and
\* chi = dz * (sum of c/H(z_k) over all N grid points): every sample, the two
\* end points z_0 = 0 and z_{N-1} = z included, has the weight dz.
C21_RectangleRuleAllSamples ==
  /\ FlatDone =>
       \A i \in Obs :
         RectangleRule(flat[i].ld, z[i],
                       [k \in Grid |-> H_flat(flat[i].ld.z_array[k], H0, Om)])
  /\ NonflatDone =>
       \A i \in Obs :
         RectangleRule(nonflat[i].ld, z[i],
                       [k \in Grid |-> H(nonflat[i].ld.z_array[k], H0, Om, Ok)])

\* C21 witness: a flat evaluation at z > 0 whose chi is larger than the step
\* times the sum without the last sample, and than the sum without the first
C21_Witness ==
  /\ FlatDone
  /\ \E i \in Obs :
       LET f == flat[i].ld
       IN  /\ Lt(Zero, z[i])
           /\ Lt(Mul(SumTo(f.integrand_values, N - 1), f.dz), f.chi)
           /\ Lt(Mul(Sub(SumTo(f.integrand_values, N), f.integrand_values[1]),
                     f.dz), f.chi)

\* the largest redshift of the data set is > 0
PositiveMax == Lt(Zero, Max(z))

\* C22: in the batched path with max(z) > 0, for every target z_i the clamped
\* insertion index is in 1..N-1, the grid points idx-1 and idx bracket the
\* target, the weight w = (z_i - z_{idx-1})/(z_idx - z_{idx-1}) is in [0, 1]
\* and chi(z_i) = chi_{idx-1}*(1-w) + chi_idx*w.
C22_InterpolationBrackets ==
  (SbiDone /\ PositiveMax) =>
    \A i \in Obs :
      LET f == sbi[1].ld
          l == f.loop[i]
      IN  /\ l.idx \in 1..(N - 1)
          /\ l.z0 = At(f.z_array, l.idx - 1)
          /\ l.z1 = At(f.z_array, l.idx)
          /\ Le(l.z0, z[i]) /\ Le(z[i], l.z1)
          /\ l.w = Div(Sub(z[i], l.z0), Sub(l.z1, l.z0))
          /\ Le(Zero, l.w) /\ Le(l.w, One)
          /\ f.chi_interp[1][i]
               = Add(Mul(At(f.chi[1], l.idx - 1), Sub(One, l.w)),
                     Mul(At(f.chi[1], l.idx), l.w))

\* C22 witness: an array holding the target 0 (index clamped up to 1, weight
\* 0) and its largest target (index N-1, weight 1)
C22_Witness ==
  /\ SbiDone /\ PositiveMax
  /\ \E i, j \in Obs :
       /\ z[i] = Zero
       /\ sbi[1].ld.loop[i].idx = 1 /\ sbi[1].ld.loop[i].w = Zero
       /\ z[j] = Max(z)
       /\ sbi[1].ld.loop[j].idx = N - 1 /\ sbi[1].ld.loop[j].w = One

\* C23: in the batched path with H0 > 0 and max(z) > 0 every term c/H * dz of
\* the cumulative integral is positive, chi_k is the sum of the terms up to k
\* and is strictly increasing along the grid, and for two targets
\* z_a <= z_b of the array the interpolated chi, the luminosity distance and
\* the noise-free distance modulus at z_a are no larger than at z_b.
C23_MonotoneInTarget ==
  (SbiDone /\ PositiveMax /\ Lt(Zero, H0)) =>
    LET f == sbi[1].ld
        terms == [k \in Grid |-> Mul(f.integrand_values[1][k], f.dz)]
    IN  /\ \A k \in Grid : Lt(Zero, terms[k])
        /\ \A k \in Grid : f.chi[1][k] = SumTo(terms, k)
        /\ StrictlyIncreasing(f.chi[1])
        /\ \A i, j \in Obs :
             Le(z[i], z[j]) =>
               /\ Le(f.chi_interp[1][i], f.chi_interp[1][j])
               /\ Le(sbi[1].dL[1][i], sbi[1].dL[1][j])
               /\ Le(sbi[1].mu_clean[1][i], sbi[1].mu_clean[1][j])

\* C23 witness: two different positive targets of one array, the noise-free
\* modulus strictly larger at the larger one, the cumulative integral growing
\* from the first grid point to the last
C23_Witness ==
  /\ SbiDone /\ PositiveMax
  /\ Lt(sbi[1].ld.chi[1][1], sbi[1].ld.chi[1][N])
  /\ \E i, j \in Obs :
       /\ Lt(Zero, z[i]) /\ Lt(z[i], z[j])
       /\ Lt(sbi[1].ld.chi_interp[1][i], sbi[1].ld.chi_interp[1][j])
       /\ Lt(sbi[1].mu_clean[1][i], sbi[1].mu_clean[1][j])

\* C24 (as claimed): in the batched path, for a target z_i = 0 of an array
\* whose largest redshift is > 0, the interpolated chi and the pre-clamp
\* distance (1+0)*chi are 0, the returned distance is the floor 1e-10 and the
\* noise-free distance modulus is -25, as in the single-redshift path.
C24_BatchedZeroRedshift ==
  (SbiDone /\ PositiveMax) =>
    \A i \in Obs :
      z[i] = Zero =>
        /\ sbi[1].ld.chi_interp[1][i] = Zero
        /\ Mul(Add(One, z[i]), sbi[1].ld.chi_interp[1][i]) = Zero
        /\ sbi[1].dL[1][i] = EPS
        /\ sbi[1].mu_clean[1][i] = F(-25, 0)

\* what C25 says of the largest target z[i] of the array, the batched and the
\* single-redshift chi agreeing up to the relative error tol
LastCumulativeValue(i, tol) ==
  LET f == sbi[1].ld
      l == f.loop[i]
  IN  /\ l.idx = N - 1
      /\ l.w = One
      /\ f.chi_interp[1][i] = f.chi[1][N]
      /\ f.chi[1][N]
           = SumTo([k \in Grid |-> Mul(f.integrand_values[1][k], f.dz)], N)
      /\ Within(f.chi_interp[1][i], flat[i].ld.chi, tol)

\* C25 (as claimed): in the batched path, for the target equal to max(z) > 0
\* the insertion index is N-1 and the weight is 1, so chi(max z) is the last
\* cumulative value, which is exactly the chi of the single-redshift path for
\* that redshift with the same H0 and Om.
C25_LastTargetExactlyDirect ==
  (FlatDone /\ SbiDone /\ PositiveMax) =>
    \A i \in Obs : z[i] = Max(z) => LastCumulativeValue(i, Zero)

\* C25 (amended): for the target equal to max(z) > 0 the insertion index is
\* N-1 and the weight is 1, so chi(max z) is the last cumulative value, the
\* sum of the N terms c/H * dz; it agrees with the chi of the single-redshift
\* path, which is (sum of c/H) * dz, up to the rounding of the two sums.
C25_LastTargetIsDirect ==
  (FlatDone /\ SbiDone /\ PositiveMax) =>
    \A i \in Obs : z[i] = Max(z) => LastCumulativeValue(i, RoundingUnit)

\* C25 witness: both paths evaluated at the largest target, the two values of
\* chi different but within the rounding error of each other
C25_Witness ==
  /\ FlatDone /\ SbiDone /\ PositiveMax
  /\ \E i \in Obs :
       /\ z[i] = Max(z)
       /\ sbi[1].ld.loop[i].w = One
       /\ sbi[1].ld.chi_interp[1][i] # flat[i].ld.chi
       /\ Within(sbi[1].ld.chi_interp[1][i], flat[i].ld.chi, RoundingUnit)

\* C26 (as claimed): the general model is continuous across the flat
\* tolerance: for |Ok| = 1e-10, the smallest curvature that selects a curved
\* branch, the factor in front of sinh/sin times the coefficient of chi inside
\* is 1 and r(z) is chi(z) up to a relative correction far below the rounding
\* error, so at z > 0 the distance is the one of the flat branch.
C26_ContinuousAcrossTolerance ==
  (NonflatDone /\ Abs(Ok) = EPS) =>
    \A i \in Obs :
      LET f == nonflat[i].ld
      IN  Lt(Zero, z[i]) =>
          /\ Within(Mul(f.factor, f.sqrt_abs_Ok), One, RoundingUnit)
          /\ Within(f.dM, f.chi, RoundingUnit)
          /\ Within(f.ret, Maximum(Mul(Add(One, z[i]), f.chi), EPS),
                    RoundingUnit)

\* the factor between the two values of H0 of the evaluations
TenFold == F(10, 0)

\* what C27 says of two evaluations va (at H0) and vb (at 10*H0) of the same
\* z > 0 and densities: when neither distance is at the floor, the distance at
\* 10*H0 is a tenth of the one at H0 and the modulus is lower by 5*log10(10),
\* up to the rounding of the logarithm
InverseInH0(va, vb) ==
  (Lt(EPS, va.ld.pre) /\ Lt(EPS, vb.ld.pre)) =>
    /\ vb.dL = Div(va.dL, TenFold)
    /\ Within(vb.mu, Sub(va.mu, F(5, 0)), RoundingUnit)

\* C27 (as claimed): when no clamp is active the luminosity distance is
\* inversely proportional to H0 in the flat model and in the flat, open and
\* closed branches of the general model: dL(z; k*H0) = dL(z; H0)/k and the
\* distance modulus is lower by 5*log10(k), here for k = 10.
C27_InverseInH0 ==
  /\ \A a, b \in CallsOf("distance_modulus_flat") :
       (/\ calls[a].args[1] = calls[b].args[1]
        /\ calls[a].args[2] = calls[b].args[2]
        /\ calls[b].args[3] = Mul(TenFold, calls[a].args[3]))
         => InverseInH0(calls[a].value, calls[b].value)
  /\ \A a, b \in CallsOf("distance_modulus") :
       (/\ calls[a].args[1] = calls[b].args[1]
        /\ calls[a].args[2] = calls[b].args[2]
        /\ calls[a].args[3] = calls[b].args[3]
        /\ calls[b].args[4] = Mul(TenFold, calls[a].args[4]))
         => InverseInH0(calls[a].value, calls[b].value)

ConstantIntegrand(f, zt, h0) ==
  LET exact == Mul(Div(c, h0), zt)
  IN  /\ \A k \in Grid : f.H[k] = h0 /\ f.integrand_values[k] = Div(c, h0)
      /\ Within(f.chi, Div(Mul(exact, F(N, 0)), F(N - 1, 0)), RoundingUnit)
      /\ Within(f.chi, Add(exact, Mul(Div(c, h0), f.dz)), RoundingUnit)
      /\ Lt(exact, f.chi)

\* C29: when H is constant over the grid (Om = 0 and Ok = 0) and z > 0, the
\* single-redshift chi of both JAX models is (c/H0)*z*N/(N-1): the exact
\* integral plus one extra sample, never less than the exact integral.
C29_ConstantIntegrand ==
  /\ \A a \in CallsOf("distance_modulus_flat") :
       (Lt(Zero, calls[a].args[1]) /\ calls[a].args[2] = Zero)
         => ConstantIntegrand(calls[a].value.ld, calls[a].args[1],
                              calls[a].args[3])
  /\ \A a \in CallsOf("distance_modulus") :
       (/\ Lt(Zero, calls[a].args[1])
        /\ calls[a].args[2] = Zero /\ calls[a].args[3] = Zero)
         => ConstantIntegrand(calls[a].value.ld, calls[a].args[1],
                              calls[a].args[4])

\* C29 witness: the flat and the general model both evaluated with Om = 0 (and
\* Ok = 0) at a positive redshift, each chi above its exact integral
C29_Witness ==
  /\ Len(calls) = 2
  /\ calls[1].fn = "distance_modulus_flat" /\ calls[1].args[2] = Zero
  /\ calls[2].fn = "distance_modulus"
  /\ calls[2].args = <<F(2, 0), Zero, Zero, F(70, 0)>>
  /\ Lt(Mul(Div(c, F(70, 0)), F(2, 0)), calls[2].value.ld.chi)
  /\ Lt(Zero, calls[1].args[1])
  /\ Lt(Mul(Div(c, calls[1].args[3]), calls[1].args[1]), calls[1].value.ld.chi)

====
